---- MODULE Spec2Model ----
(***************************************************************************)
(* Model of lib/commands/toolcontext.c: construction (create_toolcontext)  *)
(* and teardown (destroy_toolcontext) of the command context.              *)
(*                                                                         *)
(* Conventions.                                                            *)
(*  - A C string whose content is only copied, tested for emptiness or     *)
(*    measured is modelled by its length (sys_dir, dev_dir, proc_dir); a   *)
(*    string that is compared is a sequence of characters (format names).  *)
(*  - A NULL char pointer is NULL; an optional string that is compared is  *)
(*    a set holding at most one string (format_type.alias).                *)
(*  - Every call to a collaborator (config tree, device cache, filters,    *)
(*    pool, formats, libdl, stdio) is appended to `trace` with its         *)
(*    argument and outcome, in program order.                              *)
(***************************************************************************)
EXTENDS Integers, Sequences, FiniteSets, TLC

VARIABLES
    pc,        \* position in create_toolcontext / destroy_toolcontext
    build,     \* preprocessor configuration (LVM1_INTERNAL, HAVE_LIBDL)
    environ,   \* getenv("LVM_SYSTEM_DIR"): NULL or the value's length
    confFile,  \* what is on disk at <sys_dir>/lvm.conf
    cmd,       \* struct cmd_context
    cf,        \* the config tree behind cmd->cf
    conf,      \* the configuration nodes the run has looked up
    pfilter,   \* the persistent filter f4: its wrapped chain and cache
    log_fp,    \* static FILE *_log (TRUE when a stream is open)
    ret,       \* what create_toolcontext returned
    done,      \* the steps of create_toolcontext run so far, with their outcome
    trace      \* collaborator calls so far

vars == <<pc, build, environ, confFile, cmd, cf, conf, pfilter, log_fp, ret, done, trace>>

----------------------------------------------------------------------------
(* Bounds of the model *)

\* modification times are drawn from 1..MaxTime
MaxTime == 2
\* global/format_libraries lists at most MaxLibs entries
MaxLibs == 2
\* devices/scan lists at most MaxScan entries
MaxScan == 2

(* Program constants *)

PATH_MAX == 4096
NULL == -1
\* strlen(DEFAULT_SYS_DIR), "/etc/lvm"
DEFAULT_SYS_DIR == 8
\* strlen("/lvm.conf") and strlen("/.cache"), the suffixes of the two paths
LVM_CONF_SUFFIX == 9
CACHE_SUFFIX == 7
\* strlen(DEFAULT_DEV_DIR) "/dev" and strlen(DEFAULT_PROC_DIR) "/proc"
DEFAULT_DEV_DIR == 4
DEFAULT_PROC_DIR == 5

----------------------------------------------------------------------------
(* Helpers *)

Ev(op, arg, ok) == [op |-> op, arg |-> arg, ok |-> ok]

\* lvm_snprintf(buf, bufsize, ...) for an output of n characters:
\* -1 when the output and its terminator do not fit, else n
lvm_snprintf(bufsize, n) == IF n > bufsize - 1 THEN -1 ELSE n

\* find_config_int / find_config_str / find_config_node: the values a lookup
\* may return. An empty tree yields the default; a tree read from a file
\* yields the default (key absent) or any value of the key's domain.
find_config(tree, domain, default) ==
    IF tree.exists THEN domain \cup {default} ELSE {default}

\* config_file_timestamp(cf): mtime of the file the tree was read from,
\* 0 for a tree that was never read from a file
config_file_timestamp(tree) == tree.timestamp

\* create_config_tree(): an empty tree
EmptyTree == [exists |-> FALSE, timestamp |-> 0]

----------------------------------------------------------------------------
(* create_toolcontext: control flow between the steps *)

\* Faulty variant of NextStep: a failed _process_config is not checked
NextStep_UncheckedProcessConfig(step, ok) ==
    CASE step = "dbg_malloc"      -> IF ok THEN "_get_env_vars" ELSE "return"
      [] step = "_get_env_vars"   -> IF ok THEN "create_dir" ELSE "error"
      [] step = "create_dir"      -> IF ok THEN "_init_config" ELSE "error"
      [] step = "_init_config"    -> IF ok THEN "_init_logging" ELSE "error"
      [] step = "_init_logging"   -> "_process_config"
      [] step = "_process_config" -> "_init_dev_cache"
      [] step = "_init_dev_cache" -> IF ok THEN "_init_filters" ELSE "error"
      [] step = "_init_filters"   -> IF ok THEN "pool_create" ELSE "error"
      [] step = "pool_create"     -> IF ok THEN "_init_formats" ELSE "return"
      [] step = "_init_formats"   -> IF ok THEN "snapshot" ELSE "error"

\* Faulty variant of NextStep: the filters are built before the device
\* cache is initialised
NextStep_FiltersFirst(step, ok) ==
    CASE step = "dbg_malloc"      -> IF ok THEN "_get_env_vars" ELSE "return"
      [] step = "_get_env_vars"   -> IF ok THEN "create_dir" ELSE "error"
      [] step = "create_dir"      -> IF ok THEN "_init_config" ELSE "error"
      [] step = "_init_config"    -> IF ok THEN "_init_logging" ELSE "error"
      [] step = "_init_logging"   -> "_process_config"
      [] step = "_process_config" -> IF ok THEN "_init_filters" ELSE "error"
      [] step = "_init_filters"   -> IF ok THEN "_init_dev_cache" ELSE "error"
      [] step = "_init_dev_cache" -> IF ok THEN "pool_create" ELSE "error"
      [] step = "pool_create"     -> IF ok THEN "_init_formats" ELSE "return"
      [] step = "_init_formats"   -> IF ok THEN "snapshot" ELSE "error"

\* The step that follows `step` when it returned ok.
NextStep(step, ok) ==
    CASE step = "dbg_malloc"      -> IF ok THEN "_get_env_vars" ELSE "return"
      [] step = "_get_env_vars"   -> IF ok THEN "create_dir" ELSE "error"
      [] step = "create_dir"      -> IF ok THEN "_init_config" ELSE "error"
      [] step = "_init_config"    -> IF ok THEN "_init_logging" ELSE "error"
      [] step = "_init_logging"   -> "_process_config"
      [] step = "_process_config" -> IF ok THEN "_init_dev_cache" ELSE "error"
      [] step = "_init_dev_cache" -> IF ok THEN "_init_filters" ELSE "error"
      [] step = "_init_filters"   -> IF ok THEN "pool_create" ELSE "error"
      [] step = "pool_create"     -> IF ok THEN "_init_formats" ELSE "return"
      [] step = "_init_formats"   -> IF ok THEN "snapshot" ELSE "error"

\* memset(cmd, 0, sizeof(*cmd)); list_init(&cmd->formats);
\* strcpy(cmd->sys_dir, DEFAULT_SYS_DIR)
ZeroSettings ==
    [syslog |-> 0, debug |-> 0, verbose |-> 0, msg_prefix |-> 0, cmd_name |-> 0,
     test |-> 0, umask |-> 0, activation |-> 0, suffix |-> 0,
     unit_factor |-> 0, fmt |-> 0]

NewCmd ==
    [sys_dir |-> DEFAULT_SYS_DIR, dev_dir |-> 0, proc_dir |-> 0,
     cf |-> FALSE, filter |-> "NULL", mem |-> FALSE,
     formats |-> <<>>, fmt_backup |-> 0, dump_filter |-> 0,
     default_settings |-> ZeroSettings, current_settings |-> ZeroSettings]

\* Leaving a step: move to the next one; a direct `return NULL` / `return 0`
\* hands no context back.
Leave(step, ok) ==
    /\ done' = Append(done, [step |-> step, ok |-> ok])
    /\ pc' = NextStep(step, ok)
    /\ ret' = IF NextStep(step, ok) = "return" THEN "NULL" ELSE ret

Call(events) == trace' = trace \o events

\* f: the nodes a step looked up, by key
Lookup(f) == conf' = f @@ conf

----------------------------------------------------------------------------
(* Inputs *)

Builds == [LVM1_INTERNAL : BOOLEAN, HAVE_LIBDL : BOOLEAN]

\* LVM_SYSTEM_DIR: unset, "", the shortest value whose lvm.conf path does not
\* fit, and one too long for sys_dir
EnvValues == {NULL, 0, PATH_MAX - LVM_CONF_SUFFIX, PATH_MAX}

ConfFiles == {"absent", "staterr", "malformed", "valid"}

Times == 1..MaxTime

Init ==
    /\ pc = "start"
    /\ build \in Builds
    /\ environ \in EnvValues
    /\ confFile \in ConfFiles
    /\ cmd = NewCmd
    /\ cf = EmptyTree
    /\ conf = << >>
    /\ pfilter = [inner |-> "NULL", children |-> << >>, file |-> "NULL", state |-> "none"]
    /\ log_fp = FALSE
    /\ ret = "none"
    /\ done = << >>
    /\ trace = << >>

----------------------------------------------------------------------------
(* create_toolcontext, lines 419-425 *)

DbgMalloc ==
    /\ pc = "start"
    /\ \E ok \in BOOLEAN :
          /\ Call(<<Ev("dbg_malloc", 0, ok)>>)
          /\ Leave("dbg_malloc", ok)
    /\ UNCHANGED <<build, environ, confFile, cmd, cf, conf, pfilter, log_fp>>

(* _get_env_vars *)

get_env_vars(sys_dir, e) ==
    IF e # NULL
    THEN IF lvm_snprintf(PATH_MAX, e) < 0
         THEN [ok |-> FALSE, sys_dir |-> sys_dir]
         ELSE [ok |-> TRUE, sys_dir |-> e]
    ELSE [ok |-> TRUE, sys_dir |-> sys_dir]

GetEnvVars ==
    /\ pc = "_get_env_vars"
    /\ LET r == get_env_vars(cmd.sys_dir, environ) IN
          /\ cmd' = [cmd EXCEPT !.sys_dir = r.sys_dir]
          /\ Leave("_get_env_vars", r.ok)
    /\ UNCHANGED <<build, environ, confFile, cf, conf, pfilter, log_fp, trace>>

(* create_dir, guarded by *cmd->sys_dir *)

CreateDir ==
    /\ pc = "create_dir"
    /\ IF cmd.sys_dir # 0
       THEN \E ok \in BOOLEAN :
               /\ Call(<<Ev("create_dir", 0, ok)>>)
               /\ Leave("create_dir", ok)
       ELSE /\ Leave("create_dir", TRUE)
            /\ UNCHANGED trace
    /\ UNCHANGED <<build, environ, confFile, cmd, cf, conf, pfilter, log_fp>>

(* _init_config *)

\* Faulty variant of read_config: ENOENT is not told from other stat errors
read_config_MissingIsError(file, t) ==
    IF file \in {"absent", "staterr"}
    THEN [ok |-> FALSE, cf |-> EmptyTree,
          events |-> <<Ev("stat_config", 0, FALSE), Ev("destroy_config_tree", 0, TRUE)>>]
    ELSE IF file = "malformed"
    THEN [ok |-> FALSE, cf |-> EmptyTree,
          events |-> <<Ev("stat_config", 0, TRUE), Ev("read_config_file", 0, FALSE),
                       Ev("destroy_config_tree", 0, TRUE)>>]
    ELSE [ok |-> TRUE, cf |-> [exists |-> TRUE, timestamp |-> t],
          events |-> <<Ev("stat_config", 0, TRUE), Ev("read_config_file", 0, TRUE)>>]

\* lines 201-216: stat and read the file; t: its st_mtime
read_config(file, t) ==
    IF file = "absent"
    THEN [ok |-> TRUE, cf |-> EmptyTree, events |-> <<Ev("stat_config", 0, FALSE)>>]
    ELSE IF file = "staterr"
    THEN [ok |-> FALSE, cf |-> EmptyTree,
          events |-> <<Ev("stat_config", 0, FALSE), Ev("destroy_config_tree", 0, TRUE)>>]
    ELSE IF file = "malformed"
    THEN [ok |-> FALSE, cf |-> EmptyTree,
          events |-> <<Ev("stat_config", 0, TRUE), Ev("read_config_file", 0, FALSE),
                       Ev("destroy_config_tree", 0, TRUE)>>]
    ELSE [ok |-> TRUE, cf |-> [exists |-> TRUE, timestamp |-> t],
          events |-> <<Ev("stat_config", 0, TRUE), Ev("read_config_file", 0, TRUE)>>]

\* treeok: create_config_tree() succeeded; t: st_mtime of the file read
init_config(sys_dir, file, treeok, t) ==
    IF ~treeok
    THEN [ok |-> FALSE, cf |-> EmptyTree,
          events |-> <<Ev("create_config_tree", 0, FALSE)>>]
    ELSE LET made == <<Ev("create_config_tree", 0, TRUE)>>
             undo == <<Ev("destroy_config_tree", 0, TRUE)>>
         IN
         IF sys_dir = 0
         THEN [ok |-> TRUE, cf |-> EmptyTree, events |-> made]
         ELSE IF lvm_snprintf(PATH_MAX, sys_dir + LVM_CONF_SUFFIX) < 0
         THEN [ok |-> FALSE, cf |-> EmptyTree, events |-> made \o undo]
         ELSE LET r == read_config(file, t)
              IN [ok |-> r.ok, cf |-> r.cf, events |-> made \o r.events]

InitConfig ==
    /\ pc = "_init_config"
    /\ \E treeok \in BOOLEAN, t \in Times :
          LET r == init_config(cmd.sys_dir, confFile, treeok, t) IN
          /\ cf' = r.cf
          /\ cmd' = [cmd EXCEPT !.cf = treeok]
          /\ Call(r.events)
          /\ Leave("_init_config", r.ok)
    /\ UNCHANGED <<build, environ, confFile, conf, pfilter, log_fp>>

(* _init_logging *)

\* Faulty variant of init_logging: the result of fopen() is installed
\* unchecked
init_logging_Unchecked(settings, log_file, opened) ==
    [settings |-> [settings EXCEPT !.syslog = 1, !.debug = 0, !.verbose = 0,
                                   !.msg_prefix = 2, !.cmd_name = 0, !.test = 0],
     log_fp |-> (log_file # NULL),
     events |-> IF log_file # NULL THEN <<Ev("fopen", 0, opened)>> ELSE << >>]

\* log_file: log/file (NULL when absent); opened: fopen() returned a stream
init_logging(settings, log_file, opened) ==
    [settings |-> [settings EXCEPT !.syslog = 1, !.debug = 0, !.verbose = 0,
                                   !.msg_prefix = 2, !.cmd_name = 0, !.test = 0],
     log_fp |-> (log_file # NULL /\ opened),
     events |-> IF log_file # NULL THEN <<Ev("fopen", 0, opened)>> ELSE << >>]

InitLogging ==
    /\ pc = "_init_logging"
    /\ \E log_file \in find_config(cf, {1}, NULL) :
       \E opened \in (IF log_file # NULL THEN BOOLEAN ELSE {FALSE}) :
          LET r == init_logging(cmd.default_settings, log_file, opened) IN
          /\ cmd' = [cmd EXCEPT !.default_settings = r.settings]
          /\ log_fp' = r.log_fp
          /\ Lookup("log/file" :> log_file)
          /\ Call(r.events)
          /\ Leave("_init_logging", TRUE)
    /\ UNCHANGED <<build, environ, confFile, cf, pfilter>>

(* _process_config *)

\* units_to_bytes(): the factor of a units specification, 0 when invalid
units_to_bytes(units) == IF units = "h" THEN 1 ELSE 0

\* dev, proc: lengths of devices/dir and global/proc; units: global/units
process_config(c, dev, proc, units) ==
    LET c1 == [c EXCEPT !.default_settings.umask = 63] IN
    IF lvm_snprintf(PATH_MAX, dev + 1) < 0
    THEN [ok |-> FALSE, cmd |-> c1]
    ELSE LET c2 == [c1 EXCEPT !.dev_dir = dev + 1] IN
    IF lvm_snprintf(PATH_MAX, proc) < 0
    THEN [ok |-> FALSE, cmd |-> c2]
    ELSE LET c3 == [c2 EXCEPT !.proc_dir = proc,
                              !.default_settings.activation = 1,
                              !.default_settings.suffix = 1,
                              !.default_settings.unit_factor = units_to_bytes(units)]
         IN [ok |-> units_to_bytes(units) # 0, cmd |-> c3]

ProcessConfig ==
    /\ pc = "_process_config"
    /\ \E dev \in find_config(cf, {PATH_MAX - 1}, DEFAULT_DEV_DIR),
          proc \in find_config(cf, {PATH_MAX}, DEFAULT_PROC_DIR),
          units \in find_config(cf, {"bogus"}, "h") :
          LET r == process_config(cmd, dev, proc, units) IN
          /\ cmd' = r.cmd
          /\ Leave("_process_config", r.ok)
    /\ UNCHANGED <<build, environ, confFile, cf, conf, pfilter, log_fp, trace>>

(* _init_dev_cache *)

ScanValues ==
    {[type |-> "CFG_STRING", str |-> "/dev"],
     [type |-> "CFG_STRING", str |-> "/mnt/extra"],
     [type |-> "CFG_INT", str |-> ""]}

\* the values of a devices/scan node: lists of at most MaxScan values that
\* name no directory twice
ScanLists ==
    {l \in UNION {[1..n -> ScanValues] : n \in 0..MaxScan} :
        \A i, j \in 1..Len(l) :
            (i # j /\ l[i].type = "CFG_STRING" /\ l[j].type = "CFG_STRING")
                => l[i].str # l[j].str}

\* Faulty variant of scan_loop: a value that is not a string is skipped
RECURSIVE scan_loop_SkipsNonString(_, _, _, _)
scan_loop_SkipsNonString(list, i, bad, events) ==
    IF i > Len(list)
    THEN [ok |-> TRUE, events |-> events]
    ELSE IF list[i].type # "CFG_STRING"
    THEN scan_loop_SkipsNonString(list, i + 1, bad, events)
    ELSE IF bad = i
    THEN [ok |-> FALSE, events |-> Append(events, Ev("dev_cache_add_dir", i, FALSE))]
    ELSE scan_loop_SkipsNonString(list, i + 1, bad,
                                  Append(events, Ev("dev_cache_add_dir", i, TRUE)))

\* the loop over cn->v from value i on; `bad` is the number of the
\* dev_cache_add_dir call that fails (0: none fails)
RECURSIVE scan_loop(_, _, _, _)
scan_loop(list, i, bad, events) ==
    IF i > Len(list)
    THEN [ok |-> TRUE, events |-> events]
    ELSE IF list[i].type # "CFG_STRING"
    THEN [ok |-> FALSE, events |-> events]
    ELSE IF bad = i
    THEN [ok |-> FALSE, events |-> Append(events, Ev("dev_cache_add_dir", i, FALSE))]
    ELSE scan_loop(list, i + 1, bad, Append(events, Ev("dev_cache_add_dir", i, TRUE)))

\* cn: the devices/scan node, {} when absent, else {its value list}
init_dev_cache(initok, cn, bad) ==
    IF ~initok
    THEN [ok |-> FALSE, events |-> <<Ev("dev_cache_init", 0, FALSE)>>]
    ELSE IF cn = {}
    THEN [ok |-> bad # 1,
          events |-> <<Ev("dev_cache_init", 0, TRUE),
                       Ev("dev_cache_add_dir", 0, bad # 1)>>]
    ELSE scan_loop(CHOOSE l \in cn : TRUE, 1, bad, <<Ev("dev_cache_init", 0, TRUE)>>)

InitDevCache ==
    /\ pc = "_init_dev_cache"
    /\ \E initok \in BOOLEAN :
       \E cn \in (IF initok THEN find_config(cf, {{l} : l \in ScanLists}, {}) ELSE {{}}) :
       \E bad \in (IF initok THEN 0..MaxScan ELSE {0}) :
          LET r == init_dev_cache(initok, cn, bad) IN
          /\ Lookup(IF initok THEN "devices/scan" :> cn ELSE << >>)
          /\ Call(r.events)
          /\ Leave("_init_dev_cache", r.ok)
    /\ UNCHANGED <<build, environ, confFile, cmd, cf, pfilter, log_fp>>

(* _init_filter_components *)

\* Faulty variant of init_filter_components: the composite is given the
\* type filter before the regex filter
init_filter_components_TypeFirst(has_filter, typeok, regexok, compok) ==
    IF ~typeok
    THEN [f3 |-> "NULL", children |-> << >>, read |-> << >>,
          events |-> <<Ev("lvm_type_filter_create", 0, FALSE)>>]
    ELSE IF ~has_filter
    THEN [f3 |-> "type", children |-> << >>, read |-> "devices/filter" :> FALSE,
          events |-> <<Ev("lvm_type_filter_create", 0, TRUE)>>]
    ELSE IF ~regexok
    THEN [f3 |-> "NULL", children |-> << >>, read |-> "devices/filter" :> TRUE,
          events |-> <<Ev("lvm_type_filter_create", 0, TRUE),
                       Ev("regex_filter_create", 0, FALSE)>>]
    ELSE IF ~compok
    THEN [f3 |-> "NULL", children |-> << >>, read |-> "devices/filter" :> TRUE,
          events |-> <<Ev("lvm_type_filter_create", 0, TRUE),
                       Ev("regex_filter_create", 0, TRUE),
                       Ev("composite_filter_create", 0, FALSE)>>]
    ELSE [f3 |-> "composite", children |-> <<"type", "regex">>,
          read |-> "devices/filter" :> TRUE,
          events |-> <<Ev("lvm_type_filter_create", 0, TRUE),
                       Ev("regex_filter_create", 0, TRUE),
                       Ev("composite_filter_create", 0, TRUE)>>]

\* has_filter: devices/filter is in the config; typeok, regexok, compok:
\* the three constructors returned a filter
init_filter_components(has_filter, typeok, regexok, compok) ==
    IF ~typeok
    THEN [f3 |-> "NULL", children |-> << >>, read |-> << >>,
          events |-> <<Ev("lvm_type_filter_create", 0, FALSE)>>]
    ELSE IF ~has_filter
    THEN [f3 |-> "type", children |-> << >>, read |-> "devices/filter" :> FALSE,
          events |-> <<Ev("lvm_type_filter_create", 0, TRUE)>>]
    ELSE IF ~regexok
    THEN [f3 |-> "NULL", children |-> << >>, read |-> "devices/filter" :> TRUE,
          events |-> <<Ev("lvm_type_filter_create", 0, TRUE),
                       Ev("regex_filter_create", 0, FALSE)>>]
    ELSE IF ~compok
    THEN [f3 |-> "NULL", children |-> << >>, read |-> "devices/filter" :> TRUE,
          events |-> <<Ev("lvm_type_filter_create", 0, TRUE),
                       Ev("regex_filter_create", 0, TRUE),
                       Ev("composite_filter_create", 0, FALSE)>>]
    ELSE [f3 |-> "composite", children |-> <<"regex", "type">>,
          read |-> "devices/filter" :> TRUE,
          events |-> <<Ev("lvm_type_filter_create", 0, TRUE),
                       Ev("regex_filter_create", 0, TRUE),
                       Ev("composite_filter_create", 0, TRUE)>>]

(* _init_filters *)

\* Faulty variant of dump_filter_flag: the empty sys_dir is not looked at
dump_filter_flag_IgnoresSysDir(write_cache_state, sys_dir) ==
    IF write_cache_state # 0 THEN 1 ELSE 0

\* lines 313-317: should the persistent filter state ever be dumped
dump_filter_flag(write_cache_state, sys_dir) ==
    IF sys_dir = 0 THEN 0 ELSE IF write_cache_state # 0 THEN 1 ELSE 0

\* Faulty variant of cache_is_newer: a cache as old as the config is loaded
cache_is_newer_OrEqual(st, tree) == st # 0 /\ st >= config_file_timestamp(tree)

\* lines 319-320: the conditions under which persistent_filter_load is called
\* (st = 0: stat failed, else st is the cache file's st_mtime)
cache_is_newer(st, tree) == st # 0 /\ st > config_file_timestamp(tree)

\* Faulty variant of filters_built: a failed load fails the step
filters_built_LoadFatal(sys_dir, tree, fc, lvm_cache, read, wcs, st, loadok) ==
    LET made == fc.events \o <<Ev("persistent_filter_create", 0, TRUE),
                               Ev("stat_cache", st, st # 0)>>
        load == cache_is_newer(st, tree)
    IN [ok |-> ~load \/ loadok,
        dump_filter |-> dump_filter_flag(wcs, sys_dir),
        filter |-> IF ~load \/ loadok THEN "f4" ELSE "NULL",
        read |-> ("devices/write_cache_state" :> wcs) @@ read,
        pfilter |-> [inner |-> fc.f3, children |-> fc.children,
                     file |-> lvm_cache,
                     state |-> IF load /\ loadok THEN "loaded" ELSE "cold"],
        events |-> IF load
                   THEN Append(made, Ev("persistent_filter_load", 0, loadok))
                   ELSE made]

\* lines 312-327, once f4 exists
filters_built(sys_dir, tree, fc, lvm_cache, read, wcs, st, loadok) ==
    LET made == fc.events \o <<Ev("persistent_filter_create", 0, TRUE),
                               Ev("stat_cache", st, st # 0)>>
        load == cache_is_newer(st, tree)
    IN [ok |-> TRUE,
        dump_filter |-> dump_filter_flag(wcs, sys_dir),
        filter |-> "f4",
        read |-> ("devices/write_cache_state" :> wcs) @@ read,
        pfilter |-> [inner |-> fc.f3, children |-> fc.children,
                     file |-> lvm_cache,
                     state |-> IF load /\ loadok THEN "loaded" ELSE "cold"],
        events |-> IF load
                   THEN Append(made, Ev("persistent_filter_load", 0, loadok))
                   ELSE made]

\* fc: result of _init_filter_components; cache: devices/cache (NULL when
\* absent); persok: persistent_filter_create succeeded; wcs:
\* devices/write_cache_state; st: stat of lvm_cache; loadok: outcome of
\* persistent_filter_load
init_filters(sys_dir, tree, fc, cache, persok, wcs, st, loadok) ==
    LET none == [inner |-> "NULL", children |-> << >>, file |-> "NULL", state |-> "none"]
        lvm_cache == IF cache = NULL THEN "sys_dir/.cache" ELSE "devices/cache"
    IN
    IF fc.f3 = "NULL"
    THEN [ok |-> FALSE, dump_filter |-> 0, filter |-> "NULL", pfilter |-> none,
          read |-> fc.read, events |-> fc.events]
    ELSE IF lvm_snprintf(PATH_MAX, sys_dir + CACHE_SUFFIX) < 0
    THEN [ok |-> FALSE, dump_filter |-> 0, filter |-> "NULL", pfilter |-> none,
          read |-> fc.read, events |-> fc.events]
    ELSE IF ~persok
    THEN [ok |-> FALSE, dump_filter |-> 0, filter |-> "NULL", pfilter |-> none,
          read |-> ("devices/cache" :> cache) @@ fc.read,
          events |-> Append(fc.events, Ev("persistent_filter_create", 0, FALSE))]
    ELSE filters_built(sys_dir, tree, fc, lvm_cache,
                       ("devices/cache" :> cache) @@ fc.read, wcs, st, loadok)

InitFilters ==
    /\ pc = "_init_filters"
    /\ \E typeok \in BOOLEAN :
       \E has_filter \in (IF typeok THEN find_config(cf, {TRUE}, FALSE) ELSE {FALSE}) :
       \E regexok \in (IF has_filter THEN BOOLEAN ELSE {TRUE}) :
       \E compok \in (IF has_filter /\ regexok THEN BOOLEAN ELSE {TRUE}) :
       \E persok \in (IF typeok /\ regexok /\ compok THEN BOOLEAN ELSE {TRUE}) :
       \E cache \in (IF typeok /\ regexok /\ compok
                     THEN find_config(cf, {1}, NULL) ELSE {NULL}) :
       \E wcs \in (IF typeok /\ regexok /\ compok /\ persok
                   THEN find_config(cf, {0}, 1) ELSE {1}) :
       \E st \in (IF typeok /\ regexok /\ compok /\ persok THEN 0..MaxTime ELSE {0}) :
       \E loadok \in (IF cache_is_newer(st, cf) THEN BOOLEAN ELSE {TRUE}) :
          LET fc == init_filter_components(has_filter, typeok, regexok, compok)
              r == init_filters(cmd.sys_dir, cf, fc, cache, persok, wcs, st, loadok)
          IN
          /\ cmd' = [cmd EXCEPT !.dump_filter = r.dump_filter, !.filter = r.filter]
          /\ pfilter' = r.pfilter
          /\ Lookup(r.read)
          /\ Call(r.events)
          /\ Leave("_init_filters", r.ok)
    /\ UNCHANGED <<build, environ, confFile, cf, log_fp>>

(* pool_create *)

PoolCreate ==
    /\ pc = "pool_create"
    /\ \E ok \in BOOLEAN :
          /\ cmd' = [cmd EXCEPT !.mem = ok]
          /\ Call(<<Ev("pool_create", 0, ok)>>)
          /\ Leave("pool_create", ok)
    /\ UNCHANGED <<build, environ, confFile, cf, conf, pfilter, log_fp>>

(* _init_formats *)

\* tolower() on the characters the model uses
tolower(c) ==
    CASE c = "L" -> "l" [] c = "V" -> "v" [] c = "M" -> "m"
      [] c = "T" -> "t" [] c = "E" -> "e" [] c = "X" -> "x"
      [] c = "P" -> "p" [] c = "O" -> "o" [] c = "N" -> "n"
      [] OTHER -> c

\* strcasecmp(a, b): 0 when a and b are equal ignoring case, else nonzero
strcasecmp(a, b) ==
    IF /\ Len(a) = Len(b)
       /\ \A i \in 1..Len(a) : tolower(a[i]) = tolower(b[i])
    THEN 0 ELSE 1

\* the handlers init_lvm1_format and create_text_format return
Lvm1Format == [name |-> <<"l", "v", "m", "1">>, alias |-> {}, library |-> 0]
TextFormat == [name |-> <<"l", "v", "m", "2">>, alias |-> {<<"t", "e", "x", "t">>},
               library |-> 0]
\* DEFAULT_FORMAT
DefaultFormat == <<"l", "v", "m", "2">>

\* the handlers a library's init_format may return
PluginFormats ==
    {[name |-> <<"p", "o", "o", "l">>, alias |-> {<<"T", "e", "x", "t">>}, library |-> 0],
     [name |-> <<"L", "V", "M", "2">>, alias |-> {}, library |-> 0]}

\* values of global/format
FormatNames ==
    {<<"L", "v", "m", "2">>, <<"T", "E", "X", "T">>, <<"l", "v", "m", "1">>}

\* a value of global/format_libraries and what loading it does:
\* kind "ok" loads, resolves init_format and returns handler h;
\* "notstring" is a value of another type; "noload", "nosym", "nofmt" are
\* failures of load_shared_library, dlsym and init_format
LibValues ==
    {[kind |-> "ok", h |-> h] : h \in PluginFormats}
    \cup {[kind |-> k, h |-> Lvm1Format] : k \in {"notstring", "noload", "nosym", "nofmt"}}

\* lists of at most MaxLibs values; the loop stops at the first failing value
LibLists ==
    {l \in UNION {[1..n -> LibValues] : n \in 0..MaxLibs} :
        \A i \in 1..Len(l) - 1 : l[i].kind = "ok"}

\* list_add(head, elem): elem becomes the last element
list_add(list, elem) == Append(list, elem)

\* Faulty variant of register: the handler is put at the head of the list
register_AtHead(formats, fmt, lib) == <<[fmt EXCEPT !.library = lib]>> \o formats

\* fmt->library = lib; list_add(&cmd->formats, &fmt->list)
register(formats, fmt, lib) == list_add(formats, [fmt EXCEPT !.library = lib])

\* lines 359-382: the loop over cn->v from value i on
RECURSIVE load_format_libraries(_, _, _, _)
load_format_libraries(libs, i, formats, events) ==
    IF i > Len(libs)
    THEN [ok |-> TRUE, formats |-> formats, events |-> events]
    ELSE LET cv == libs[i] IN
    IF cv.kind = "notstring"
    THEN [ok |-> FALSE, formats |-> formats, events |-> events]
    ELSE IF cv.kind = "noload"
    THEN [ok |-> FALSE, formats |-> formats,
          events |-> events \o <<Ev("load_shared_library", i, FALSE)>>]
    ELSE IF cv.kind = "nosym"
    THEN [ok |-> FALSE, formats |-> formats,
          events |-> events \o <<Ev("load_shared_library", i, TRUE),
                                 Ev("dlsym", i, FALSE),
                                 Ev("dlclose", i, TRUE)>>]
    ELSE IF cv.kind = "nofmt"
    THEN [ok |-> FALSE, formats |-> formats,
          events |-> events \o <<Ev("load_shared_library", i, TRUE),
                                 Ev("dlsym", i, TRUE),
                                 Ev("init_format_fn", i, FALSE)>>]
    ELSE load_format_libraries(libs, i + 1,
            register(formats, cv.h, i),
            events \o <<Ev("load_shared_library", i, TRUE),
                        Ev("dlsym", i, TRUE),
                        Ev("init_format_fn", i, TRUE)>>)

\* lines 398-399: does handler fmt answer to the name format
format_matches(fmt, format) ==
    \/ strcasecmp(fmt.name, format) = 0
    \/ \E a \in fmt.alias : strcasecmp(a, format) = 0

\* Faulty variant of select_default: the scan does not stop at the first match
select_default_LastMatch(formats, format) ==
    IF \E i \in 1..Len(formats) : format_matches(formats[i], format)
    THEN CHOOSE i \in 1..Len(formats) :
            /\ format_matches(formats[i], format)
            /\ \A j \in (i + 1)..Len(formats) : ~format_matches(formats[j], format)
    ELSE 0

\* lines 396-403: position of the handler chosen as default, 0 when none
select_default(formats, format) ==
    IF \E i \in 1..Len(formats) : format_matches(formats[i], format)
    THEN CHOOSE i \in 1..Len(formats) :
            /\ format_matches(formats[i], format)
            /\ \A j \in 1..(i - 1) : ~format_matches(formats[j], format)
    ELSE 0

\* b: the build; lvm1ok, textok: init_lvm1_format / create_text_format
\* succeeded; cn: global/format_libraries ({} when absent); format:
\* global/format
init_formats(b, c, lvm1ok, cn, textok, format) ==
    LET rd == IF b.HAVE_LIBDL THEN "global/format_libraries" :> cn ELSE << >>
        fail(fs, evs, r) ==
            [ok |-> FALSE, cmd |-> [c EXCEPT !.formats = fs], read |-> r, events |-> evs]
        e0 == <<Ev("label_init", 0, TRUE)>>
    IN
    IF b.LVM1_INTERNAL /\ ~lvm1ok
    THEN fail(c.formats, Append(e0, Ev("init_lvm1_format", 0, FALSE)), << >>)
    ELSE LET f1 == IF b.LVM1_INTERNAL THEN register(c.formats, Lvm1Format, 0) ELSE c.formats
             e1 == IF b.LVM1_INTERNAL
                   THEN Append(e0, Ev("init_lvm1_format", 0, TRUE)) ELSE e0
             libs == IF b.HAVE_LIBDL /\ cn # {}
                     THEN load_format_libraries(CHOOSE l \in cn : TRUE, 1, f1, e1)
                     ELSE [ok |-> TRUE, formats |-> f1, events |-> e1]
         IN
         IF ~libs.ok
         THEN fail(libs.formats, libs.events, rd)
         ELSE IF ~textok
         THEN fail(libs.formats, Append(libs.events, Ev("create_text_format", 0, FALSE)), rd)
         ELSE LET f2 == register(libs.formats, TextFormat, 0)
                  e2 == Append(libs.events, Ev("create_text_format", 0, TRUE))
                  d == select_default(f2, format)
                  c2 == [c EXCEPT !.formats = f2, !.fmt_backup = Len(f2)]
                  r2 == ("global/format" :> format) @@ rd
              IN IF d # 0
                 THEN [ok |-> TRUE, cmd |-> [c2 EXCEPT !.default_settings.fmt = d],
                       read |-> r2, events |-> e2]
                 ELSE [ok |-> FALSE, cmd |-> c2, read |-> r2, events |-> e2]

InitFormats ==
    /\ pc = "_init_formats"
    /\ \E lvm1ok \in (IF build.LVM1_INTERNAL THEN BOOLEAN ELSE {TRUE}) :
       \E cn \in (IF build.HAVE_LIBDL /\ lvm1ok
                  THEN find_config(cf, {{l} : l \in LibLists}, {}) ELSE {{}}) :
       \E textok \in (IF lvm1ok /\ \A l \in cn : \A i \in 1..Len(l) : l[i].kind = "ok"
                      THEN BOOLEAN ELSE {TRUE}) :
       \E format \in (IF lvm1ok /\ textok
                      THEN find_config(cf, FormatNames, DefaultFormat)
                      ELSE {DefaultFormat}) :
          LET r == init_formats(build, cmd, lvm1ok, cn, textok, format) IN
          /\ cmd' = r.cmd
          /\ Lookup(r.read)
          /\ Call(r.events)
          /\ Leave("_init_formats", r.ok)
    /\ UNCHANGED <<build, environ, confFile, cf, pfilter, log_fp>>

(* create_toolcontext, lines 458-460 *)

\* Faulty variant of snapshot: the default format is left out of the copy
snapshot_WithoutFormat(c) ==
    [c EXCEPT !.current_settings = [c.default_settings EXCEPT !.fmt = 0]]

\* line 458: cmd->current_settings = cmd->default_settings
snapshot(c) == [c EXCEPT !.current_settings = c.default_settings]

Snapshot ==
    /\ pc = "snapshot"
    /\ cmd' = snapshot(cmd)
    /\ ret' = "cmd"
    /\ pc' = "return"
    /\ UNCHANGED <<build, environ, confFile, cf, conf, pfilter, log_fp, done, trace>>

(* create_toolcontext, lines 462-464 *)

Error ==
    /\ pc = "error"
    /\ Call(<<Ev("dbg_free", 0, TRUE)>>)
    /\ ret' = "NULL"
    /\ pc' = "return"
    /\ UNCHANGED <<build, environ, confFile, cmd, cf, conf, pfilter, log_fp, done>>

(* _destroy_formats *)

\* Faulty variant of destroy_formats: the module is closed before the
\* handler living in it is destroyed
RECURSIVE destroy_formats_CloseFirst(_, _, _, _)
destroy_formats_CloseFirst(b, formats, i, events) ==
    IF i > Len(formats)
    THEN events
    ELSE destroy_formats_CloseFirst(b, formats, i + 1,
            events \o (IF b.HAVE_LIBDL /\ formats[i].library # 0
                       THEN <<Ev("dlclose", formats[i].library, TRUE)>>
                       ELSE << >>)
                   \o <<Ev("fmt_destroy", i, TRUE)>>)

RECURSIVE destroy_formats(_, _, _, _)
destroy_formats(b, formats, i, events) ==
    IF i > Len(formats)
    THEN events
    ELSE destroy_formats(b, formats, i + 1,
            events \o <<Ev("fmt_destroy", i, TRUE)>>
                   \o (IF b.HAVE_LIBDL /\ formats[i].library # 0
                       THEN <<Ev("dlclose", formats[i].library, TRUE)>>
                       ELSE << >>))

\* Faulty variant of destroy_toolcontext: the pool goes before the filters
destroy_toolcontext_PoolFirst(b, c, logfp) ==
    (IF c.dump_filter # 0 THEN <<Ev("persistent_filter_dump", 0, TRUE)>> ELSE << >>)
    \o <<Ev("cache_destroy", 0, TRUE), Ev("label_exit", 0, TRUE)>>
    \o destroy_formats(b, c.formats, 1, << >>)
    \o <<Ev("pool_destroy", 0, TRUE),
         Ev("filter_destroy", 0, TRUE),
         Ev("dev_cache_exit", 0, TRUE),
         Ev("destroy_config_tree", 0, TRUE),
         Ev("dbg_free", 0, TRUE),
         Ev("dump_memory", 0, TRUE),
         Ev("fin_log", 0, TRUE),
         Ev("fin_syslog", 0, TRUE)>>
    \o (IF logfp THEN <<Ev("fclose", 0, TRUE)>> ELSE << >>)

\* Faulty variant of destroy_toolcontext: the cache is dumped after the
\* filter chain was destroyed
destroy_toolcontext_LateDump(b, c, logfp) ==
    <<Ev("cache_destroy", 0, TRUE), Ev("label_exit", 0, TRUE)>>
    \o destroy_formats(b, c.formats, 1, << >>)
    \o <<Ev("filter_destroy", 0, TRUE)>>
    \o (IF c.dump_filter # 0 THEN <<Ev("persistent_filter_dump", 0, TRUE)>> ELSE << >>)
    \o <<Ev("pool_destroy", 0, TRUE),
         Ev("dev_cache_exit", 0, TRUE),
         Ev("destroy_config_tree", 0, TRUE),
         Ev("dbg_free", 0, TRUE),
         Ev("dump_memory", 0, TRUE),
         Ev("fin_log", 0, TRUE),
         Ev("fin_syslog", 0, TRUE)>>
    \o (IF logfp THEN <<Ev("fclose", 0, TRUE)>> ELSE << >>)

(* destroy_toolcontext *)

destroy_toolcontext(b, c, logfp) ==
    (IF c.dump_filter # 0 THEN <<Ev("persistent_filter_dump", 0, TRUE)>> ELSE << >>)
    \o <<Ev("cache_destroy", 0, TRUE), Ev("label_exit", 0, TRUE)>>
    \o destroy_formats(b, c.formats, 1, << >>)
    \o <<Ev("filter_destroy", 0, TRUE),
         Ev("pool_destroy", 0, TRUE),
         Ev("dev_cache_exit", 0, TRUE),
         Ev("destroy_config_tree", 0, TRUE),
         Ev("dbg_free", 0, TRUE),
         Ev("dump_memory", 0, TRUE),
         Ev("fin_log", 0, TRUE),
         Ev("fin_syslog", 0, TRUE)>>
    \o (IF logfp THEN <<Ev("fclose", 0, TRUE)>> ELSE << >>)

Destroy ==
    /\ pc = "return"
    /\ ret = "cmd"
    /\ Call(destroy_toolcontext(build, cmd, log_fp))
    /\ cmd' = [cmd EXCEPT !.formats = << >>]
    /\ pc' = "destroyed"
    /\ UNCHANGED <<build, environ, confFile, cf, conf, pfilter, log_fp, ret, done>>

----------------------------------------------------------------------------

Next ==
    \/ DbgMalloc
    \/ GetEnvVars
    \/ CreateDir
    \/ InitConfig
    \/ InitLogging
    \/ ProcessConfig
    \/ InitDevCache
    \/ InitFilters
    \/ PoolCreate
    \/ InitFormats
    \/ Snapshot
    \/ Error
    \/ Destroy

Spec == Init /\ [][Next]_vars

----------------------------------------------------------------------------
(* Vocabulary of the properties: queries on the history *)

\* the successful calls of op, by position in the trace
Calls(op) == {i \in DOMAIN trace : trace[i].op = op /\ trace[i].ok}

\* the calls of op, successful or not
Attempts(op) == {i \in DOMAIN trace : trace[i].op = op}

\* the steps that ran, and those that failed
Ran(step) == \E i \in DOMAIN done : done[i].step = step
Failed(step) == \E i \in DOMAIN done : done[i].step = step /\ ~done[i].ok
Succeeded(step) == \E i \in DOMAIN done : done[i].step = step /\ done[i].ok

\* a sub-resource of the context: the calls that construct it, the calls that
\* release it
SubResources ==
    {[make |-> {"create_config_tree"}, free |-> {"destroy_config_tree"}],
     [make |-> {"dev_cache_init"}, free |-> {"dev_cache_exit"}],
     [make |-> {"persistent_filter_create"}, free |-> {"filter_destroy"}],
     [make |-> {"pool_create"}, free |-> {"pool_destroy"}],
     [make |-> {"fopen"}, free |-> {"fclose"}]}

Made(r) == UNION {Calls(op) : op \in r.make}
Freed(r) == UNION {Calls(op) : op \in r.free}

\* the filter layers built, and whether the chain root that owns them was
\* destroyed
FilterCreates ==
    {"lvm_type_filter_create", "regex_filter_create",
     "composite_filter_create", "persistent_filter_create"}
LayersBuilt == UNION {Calls(op) : op \in FilterCreates}

\* format handlers built and destroyed, modules opened and closed
FormatsBuilt ==
    Calls("init_lvm1_format") \cup Calls("init_format_fn") \cup Calls("create_text_format")
ModulesOpen(i) ==
    Cardinality({j \in Calls("load_shared_library") : trace[j].arg = i})
    - Cardinality({j \in Calls("dlclose") : trace[j].arg = i})

Returned == pc \in {"return", "destroyed"}
ReturnedNull == pc = "return" /\ ret = "NULL"

----------------------------------------------------------------------------
(* C1 *)

\* C1: a failed step of create_toolcontext is the last step that ran, the
\* function is then on its way out (or out), and what it returns is NULL.
C1_FailureAbortsConstruction ==
    \A i \in DOMAIN done :
        ~done[i].ok =>
            /\ i = Len(done)
            /\ pc \in {"error", "return"}
            /\ ret # "cmd"
            /\ (pc = "return" => ret = "NULL")

\* the filter step failed and create_toolcontext has returned
C1_Witness == ReturnedNull /\ Failed("_init_filters")

(* C2 *)

\* C2: when create_toolcontext has returned NULL, every sub-resource built
\* on the way (config tree, device cache, filter layers, pool, format
\* handlers, their modules, the log file) has been released exactly once.
C2_FailureReleasesEverything ==
    ReturnedNull =>
        /\ \A r \in SubResources : Cardinality(Made(r)) = Cardinality(Freed(r))
        /\ LayersBuilt # {} => Cardinality(Calls("filter_destroy")) = 1
        /\ Cardinality(FormatsBuilt) = Cardinality(Calls("fmt_destroy"))
        /\ \A i \in 1..MaxLibs + 1 : ModulesOpen(i) = 0

(* C3 *)

\* C3: whenever create_toolcontext returns NULL after the context structure
\* was allocated, the structure has been freed, once - also when it is the
\* pool that could not be created.
C3_FailureFreesContext ==
    (ReturnedNull /\ Calls("dbg_malloc") # {}) =>
        Cardinality(Calls("dbg_free")) = 1

(* C4 *)

\* the stat of the cache file, once _init_filters has made it
CacheStat == trace[CHOOSE i \in Attempts("stat_cache") : TRUE]
CacheNewer == CacheStat.ok /\ CacheStat.arg > cf.timestamp

\* C4: persistent_filter_load is called only after a successful stat of the
\* cache file with st_mtime strictly above the config timestamp; with a
\* failed stat or an mtime at or below the timestamp it is not called and
\* the filter is cold.
C4_LoadOnlyWhenCacheNewer ==
    /\ Attempts("persistent_filter_load") # {}
          => (Attempts("stat_cache") # {} /\ CacheNewer)
    /\ (Attempts("stat_cache") # {} /\ ~CacheNewer)
          => (Attempts("persistent_filter_load") = {} /\ pfilter.state = "cold")

\* a cache file exactly as old as the configuration file: not loaded
C4_Witness ==
    /\ Attempts("stat_cache") # {}
    /\ cf.exists
    /\ CacheStat.ok
    /\ CacheStat.arg = cf.timestamp
    /\ Attempts("persistent_filter_load") = {}

(* C5 *)

\* C5: _init_filters succeeds exactly when the persistent filter was
\* created, whatever the load did; it then installs that filter as
\* cmd->filter; when it fails, a filter constructor has failed.
C5_LoadFailureNotFatal ==
    Ran("_init_filters") =>
        /\ Succeeded("_init_filters") <=> Calls("persistent_filter_create") # {}
        /\ Succeeded("_init_filters") => cmd.filter = "f4"
        /\ Failed("_init_filters") =>
              \E i \in DOMAIN trace : trace[i].op \in FilterCreates /\ ~trace[i].ok

\* the load was attempted and failed, and construction went on to the pool
C5_Witness ==
    /\ \E i \in Attempts("persistent_filter_load") : ~trace[i].ok
    /\ Succeeded("_init_filters")
    /\ Ran("pool_create")

(* C6 *)

\* C6: with an empty sys_dir the persistent cache is neither loaded nor
\* dumped.
C6_EmptySysDirNoCache ==
    (Ran("_get_env_vars") /\ cmd.sys_dir = 0) =>
        /\ Attempts("persistent_filter_load") = {}
        /\ Attempts("persistent_filter_dump") = {}

(* C7 *)

\* C7: once the context is torn down, the cache was dumped if and only if
\* devices/write_cache_state (1 when not configured) is non-zero and
\* sys_dir is not empty.
C7_DumpIffFlagAndSysDir ==
    /\ pc = "destroyed" =>
          (Attempts("persistent_filter_dump") # {}
             <=> (conf["devices/write_cache_state"] # 0 /\ cmd.sys_dir # 0))
    /\ pc # "destroyed" => Attempts("persistent_filter_dump") = {}
    /\ (Succeeded("_init_filters") /\ ~cf.exists)
          => conf["devices/write_cache_state"] = 1

\* torn down with an empty sys_dir and write_cache_state on: no dump
C7_Witness ==
    /\ pc = "destroyed"
    /\ cmd.sys_dir = 0
    /\ conf["devices/write_cache_state"] = 1
    /\ Attempts("persistent_filter_dump") = {}

(* C8 *)

\* the path <sys_dir>/lvm.conf and its terminator fit a PATH_MAX buffer
ConfPathFits == cmd.sys_dir + LVM_CONF_SUFFIX < PATH_MAX

\* C8 as stated: after _init_config, an empty sys_dir means success with an
\* empty tree and no stat or read; a non-empty sys_dir without lvm.conf
\* means success with an empty tree; an lvm.conf that cannot be stat'ed or
\* parsed means failure and no context.
C8_ConfigOutcome_AsStated ==
    Ran("_init_config") =>
        /\ cmd.sys_dir = 0 =>
              /\ Succeeded("_init_config")
              /\ Attempts("stat_config") = {} /\ Attempts("read_config_file") = {}
              /\ ~cf.exists
        /\ (cmd.sys_dir # 0 /\ confFile = "absent") =>
              (Succeeded("_init_config") /\ ~cf.exists)
        /\ (cmd.sys_dir # 0 /\ confFile \in {"staterr", "malformed"}) =>
              (Failed("_init_config") /\ ret # "cmd" /\ (Returned => ReturnedNull))

\* C8, amended: the two successful outcomes need the tree to have been
\* allocated and, for a non-empty sys_dir, the path <sys_dir>/lvm.conf to fit
\* its buffer; without either the step is fatal.
C8_ConfigOutcome ==
    Ran("_init_config") =>
        /\ Calls("create_config_tree") = {} => Failed("_init_config")
        /\ (cmd.sys_dir # 0 /\ ~ConfPathFits) =>
              (Failed("_init_config") /\ Attempts("stat_config") = {})
        /\ (Calls("create_config_tree") # {} /\ cmd.sys_dir = 0) =>
              /\ Succeeded("_init_config")
              /\ Attempts("stat_config") = {} /\ Attempts("read_config_file") = {}
              /\ ~cf.exists
        /\ (Calls("create_config_tree") # {} /\ cmd.sys_dir # 0 /\ ConfPathFits
              /\ confFile = "absent") =>
              (Succeeded("_init_config") /\ ~cf.exists)
        /\ (cmd.sys_dir # 0 /\ confFile \in {"staterr", "malformed"}) =>
              (Failed("_init_config") /\ ret # "cmd" /\ (Returned => ReturnedNull))

\* a non-empty sys_dir without lvm.conf: the step succeeded, the tree is empty
C8_Witness ==
    /\ Succeeded("_init_config")
    /\ cmd.sys_dir # 0
    /\ confFile = "absent"
    /\ Attempts("stat_config") # {}
    /\ ~cf.exists

(* C9 *)

LowerCase == <<"l", "v", "m", "t", "e", "x", "p", "o", "n">>
UpperCase == <<"L", "V", "M", "T", "E", "X", "P", "O", "N">>

\* two characters that differ at most in case
SameLetter(a, b) ==
    a = b \/ \E k \in DOMAIN LowerCase : {a, b} = {LowerCase[k], UpperCase[k]}

\* two strings that differ at most in case
SameName(x, y) ==
    Len(x) = Len(y) /\ \A i \in 1..Len(x) : SameLetter(x[i], y[i])

\* handler fmt goes by the name n
Answers(fmt, n) == SameName(fmt.name, n) \/ \E a \in fmt.alias : SameName(a, n)

\* C9: after a successful _init_formats the default format is the first
\* handler of the list that goes by the configured name, ignoring case;
\* when the list is complete and no handler does, _init_formats fails and
\* no context is returned.
C9_FirstMatchIsDefault ==
    (Ran("_init_formats") /\ pc # "destroyed") =>
        /\ Succeeded("_init_formats") =>
              LET d == cmd.default_settings.fmt
                  n == conf["global/format"]
              IN /\ d \in 1..Len(cmd.formats)
                 /\ Answers(cmd.formats[d], n)
                 /\ \A j \in 1..(d - 1) : ~Answers(cmd.formats[j], n)
        /\ (/\ Calls("create_text_format") # {}
            /\ \A i \in 1..Len(cmd.formats) :
                  ~Answers(cmd.formats[i], conf["global/format"]))
              => (Failed("_init_formats") /\ ret # "cmd" /\ (Returned => ReturnedNull))

\* two handlers go by the configured name and the earlier one is the default
C9_Witness ==
    /\ Succeeded("_init_formats")
    /\ pc # "destroyed"
    /\ \E i, j \in 1..Len(cmd.formats) :
          /\ i < j
          /\ Answers(cmd.formats[i], conf["global/format"])
          /\ Answers(cmd.formats[j], conf["global/format"])
          /\ conf["global/format"] # cmd.formats[i].name
          /\ cmd.default_settings.fmt = i

(* C10 *)

\* the libraries the configuration lists, as far as the build loads any
ListedLibs ==
    IF build.HAVE_LIBDL /\ conf["global/format_libraries"] # {}
    THEN CHOOSE l \in conf["global/format_libraries"] : TRUE
    ELSE << >>

\* C10: in a constructed context the format list is the lvm1 format (when
\* built in), the handlers of the listed libraries in their order, each
\* owning its library, and the text format last, which owns no library and
\* is fmt_backup.
C10_FormatListOrder ==
    (ret = "cmd" /\ pc = "return") =>
        LET fs == cmd.formats
            off == IF build.LVM1_INTERNAL THEN 1 ELSE 0
            n == off + Len(ListedLibs) + 1
        IN /\ Len(fs) = n
           /\ build.LVM1_INTERNAL =>
                 (fs[1].name = <<"l", "v", "m", "1">> /\ fs[1].library = 0)
           /\ \A i \in 1..Len(ListedLibs) :
                 /\ fs[off + i].name = ListedLibs[i].h.name
                 /\ fs[off + i].library = i
           /\ fs[n].name = <<"l", "v", "m", "2">>
           /\ fs[n].library = 0
           /\ cmd.fmt_backup = n

\* a context with the lvm1 format, two plugins and the text format
C10_Witness ==
    /\ ret = "cmd" /\ pc = "return"
    /\ build.LVM1_INTERNAL
    /\ Len(ListedLibs) = 2
    /\ ListedLibs[1].h.name # ListedLibs[2].h.name
    /\ Len(cmd.formats) = 4


(* The persistent filter in use *)

MaxDev == 2
MaxPasses == 3

\* device identities
Devices == 1..MaxDev

\* the decisions a cache file may hold
CacheFiles == UNION {[D -> BOOLEAN] : D \in SUBSET Devices}

\* persistent_filter_load(f4): on success the mapping holds the decisions of
\* the backing file; a failed load leaves the filter cold
persistent_filter_load(pf, contents) ==
    pf @@ [cache |-> IF pf.state = "loaded" THEN contents ELSE << >>,
           loaded |-> IF pf.state = "loaded" THEN contents ELSE << >>,
           dirty |-> FALSE]

\* Faulty variant of persistent_passes: a decision of the inner filter is
\* returned but not stored
persistent_passes_NoStore(pf, d, inner) ==
    IF d \in DOMAIN pf.cache
    THEN [pfilter |-> pf,
          events |-> <<Ev("persistent_passes", d, pf.cache[d])>>]
    ELSE [pfilter |-> [pf EXCEPT !.dirty = TRUE],
          events |-> <<Ev("inner_passes", d, inner),
                       Ev("persistent_passes", d, inner)>>]

\* f4->passes(d); inner: what the wrapped filter answers if it is asked
persistent_passes(pf, d, inner) ==
    IF d \in DOMAIN pf.cache
    THEN [pfilter |-> pf,
          events |-> <<Ev("persistent_passes", d, pf.cache[d])>>]
    ELSE [pfilter |-> [pf EXCEPT !.cache = (d :> inner) @@ pf.cache,
                                 !.dirty = TRUE],
          events |-> <<Ev("inner_passes", d, inner),
                       Ev("persistent_passes", d, inner)>>]

\* The filter as _init_filters leaves it (lines 305-325) in a context with
\* the default system directory and an empty config tree: cold, or loaded
\* from a cache file that exists
InitFilter ==
    /\ pc = "passes"
    /\ build \in {[LVM1_INTERNAL |-> FALSE, HAVE_LIBDL |-> FALSE]}
    /\ environ = NULL
    /\ confFile = "absent"
    /\ cf = EmptyTree
    /\ conf = << >>
    /\ log_fp = FALSE
    /\ ret = "none"
    /\ done = << >>
    /\ \E st \in 0..MaxTime :
       \E loadok \in (IF cache_is_newer(st, EmptyTree) THEN BOOLEAN ELSE {TRUE}) :
       \E contents \in (IF cache_is_newer(st, EmptyTree) /\ loadok
                         THEN CacheFiles ELSE {<< >>}) :
          LET fc == init_filter_components(FALSE, TRUE, TRUE, TRUE)
              r == init_filters(DEFAULT_SYS_DIR, EmptyTree, fc, NULL, TRUE, 1, st, loadok)
          IN /\ cmd = [NewCmd EXCEPT !.dump_filter = r.dump_filter, !.filter = r.filter]
             /\ pfilter = persistent_filter_load(r.pfilter, contents)
             /\ trace = r.events

\* a caller asks the filter root about device d
Passes ==
    /\ pc = "passes"
    /\ Cardinality({i \in DOMAIN trace : trace[i].op = "persistent_passes"}) < MaxPasses
    /\ \E d \in Devices :
       \E inner \in (IF d \in DOMAIN pfilter.cache THEN {TRUE} ELSE BOOLEAN) :
          LET r == persistent_passes(pfilter, d, inner)
          IN /\ pfilter' = r.pfilter
             /\ Call(r.events)
    /\ UNCHANGED <<pc, build, environ, confFile, cmd, cf, conf, log_fp, ret, done>>

NextFilter == Passes

SpecFilter == InitFilter /\ [][NextFilter]_vars

(* C11 *)

\* every call of a comes before every call of b, and both were made
Before(a, b) ==
    /\ Attempts(a) # {}
    /\ Attempts(b) # {}
    /\ \A i \in Attempts(a), j \in Attempts(b) : i < j

\* C11 as stated: in teardown the device cache is released before the format
\* handlers, these before the filter chain, it before the pool, it before
\* the config tree, it before the context structure; the log file is
\* closed last.
C11_TeardownOrder_AsStated ==
    pc = "destroyed" =>
        /\ \A i \in Attempts("persistent_filter_dump"), j \in Attempts("dev_cache_exit") :
              i < j
        /\ Before("dev_cache_exit", "fmt_destroy")
        /\ Before("fmt_destroy", "filter_destroy")
        /\ Before("filter_destroy", "pool_destroy")
        /\ Before("pool_destroy", "destroy_config_tree")
        /\ Before("destroy_config_tree", "dbg_free")
        /\ log_fp => trace[Len(trace)].op = "fclose"

\* C11, amended: what is released before the format handlers is the
\* metadata cache and the label registry; the device cache is released
\* after the pool and before the config tree; the rest of the order is as
\* stated.
C11_TeardownOrder ==
    pc = "destroyed" =>
        /\ \A i \in Attempts("persistent_filter_dump"), j \in Attempts("cache_destroy") :
              i < j
        /\ Before("cache_destroy", "label_exit")
        /\ Before("label_exit", "fmt_destroy")
        /\ Before("fmt_destroy", "filter_destroy")
        /\ Before("filter_destroy", "pool_destroy")
        /\ Before("pool_destroy", "dev_cache_exit")
        /\ Before("dev_cache_exit", "destroy_config_tree")
        /\ Before("destroy_config_tree", "dbg_free")
        /\ log_fp => trace[Len(trace)].op = "fclose"

\* a torn down context that dumped its cache and had a log file open
C11_Witness ==
    /\ pc = "destroyed"
    /\ Attempts("persistent_filter_dump") # {}
    /\ log_fp
    /\ Cardinality(Attempts("fmt_destroy")) >= 2

(* C13 *)

\* the calls that use a resource, and the call that releases it
Usage ==
    {[free |-> "filter_destroy",
      use |-> {"persistent_filter_dump", "persistent_filter_load", "filter_destroy"}],
     [free |-> "pool_destroy", use |-> {"pool_destroy"}],
     [free |-> "destroy_config_tree",
      use |-> {"read_config_file", "destroy_config_tree"}],
     [free |-> "dbg_free", use |-> {"dbg_free"}],
     [free |-> "dev_cache_exit", use |-> {"dev_cache_add_dir", "dev_cache_exit"}]}

\* C13: in a torn down context the dump, if made, precedes the destruction
\* of the filter chain; nothing is called on the filter, the format
\* handlers, the pool or the config tree after its release; each is
\* released exactly once.
C13_NoUseAfterRelease ==
    pc = "destroyed" =>
        /\ \A i \in Attempts("persistent_filter_dump"), j \in Attempts("filter_destroy") :
              i < j
        /\ (cmd.dump_filter # 0) <=> (Attempts("persistent_filter_dump") # {})
        /\ \A u \in Usage :
              /\ Cardinality(Attempts(u.free)) = 1
              /\ \A i \in Attempts(u.free), j \in DOMAIN trace :
                    j > i => trace[j].op \notin u.use
        /\ \A k \in 1..Cardinality(FormatsBuilt) :
              Cardinality({j \in Attempts("fmt_destroy") : trace[j].arg = k}) = 1
        /\ Cardinality(Attempts("fmt_destroy")) = Cardinality(FormatsBuilt)

\* a torn down context whose cache was dumped
C13_Witness ==
    /\ pc = "destroyed"
    /\ cmd.dump_filter # 0
    /\ Attempts("persistent_filter_dump") # {}
    /\ Attempts("filter_destroy") # {}


(* C12 *)

PassesCalls(d) ==
    {i \in DOMAIN trace : trace[i].op = "persistent_passes" /\ trace[i].arg = d}

InnerCalls(d) ==
    {i \in DOMAIN trace : trace[i].op = "inner_passes" /\ trace[i].arg = d}

\* C12: the first passes(d) on a device the filter holds no decision for
\* asks the inner filter, returns and stores its answer and marks the
\* filter dirty; every later passes(d) returns the stored answer and does
\* not ask the inner filter, which is thus asked at most once per device; a
\* loaded decision is returned without asking the inner filter.
C12_PersistentPasses ==
    /\ \A d \in Devices :
          /\ Cardinality(InnerCalls(d)) <= 1
          /\ d \in DOMAIN pfilter.loaded =>
                /\ InnerCalls(d) = {}
                /\ \A j \in PassesCalls(d) : trace[j].ok = pfilter.loaded[d]
          /\ (d \notin DOMAIN pfilter.loaded /\ PassesCalls(d) # {}) =>
                LET first == CHOOSE j \in PassesCalls(d) : \A k \in PassesCalls(d) : j <= k
                IN /\ InnerCalls(d) = {first - 1}
                   /\ \A j \in PassesCalls(d) : trace[j].ok = trace[first - 1].ok
                   /\ d \in DOMAIN pfilter.cache
                   /\ pfilter.cache[d] = trace[first - 1].ok
                   /\ pfilter.dirty
    /\ pfilter.dirty <=> (\E d \in Devices : InnerCalls(d) # {})

\* a device asked about twice, cold, and another answered from a loaded
\* decision
C12_Witness ==
    \E d, e \in Devices :
        /\ d \notin DOMAIN pfilter.loaded
        /\ Cardinality(PassesCalls(d)) >= 2
        /\ e \in DOMAIN pfilter.loaded
        /\ PassesCalls(e) # {}
        /\ ~pfilter.loaded[e]


(* C14 *)

StepOrder ==
    <<"dbg_malloc", "_get_env_vars", "create_dir", "_init_config", "_init_logging",
      "_process_config", "_init_dev_cache", "_init_filters", "pool_create",
      "_init_formats">>

\* the step of create_toolcontext that makes a call
StepOf ==
    [dbg_malloc |-> 1, create_dir |-> 3,
     create_config_tree |-> 4, stat_config |-> 4, read_config_file |-> 4,
     fopen |-> 5,
     dev_cache_init |-> 7, dev_cache_add_dir |-> 7,
     lvm_type_filter_create |-> 8, regex_filter_create |-> 8,
     composite_filter_create |-> 8, persistent_filter_create |-> 8,
     stat_cache |-> 8, persistent_filter_load |-> 8,
     pool_create |-> 9,
     label_init |-> 10, init_lvm1_format |-> 10, load_shared_library |-> 10,
     dlsym |-> 10, init_format_fn |-> 10, create_text_format |-> 10]

SnapshotTaken == cmd.current_settings # ZeroSettings \/ ret = "cmd"

\* C14: the steps of create_toolcontext run in one fixed order, each only
\* after all earlier ones succeeded; create_dir is called only for a
\* non-empty system directory; the settings snapshot is taken only after
\* all ten steps succeeded.
C14_FixedStepOrder ==
    /\ Len(done) <= Len(StepOrder)
    /\ \A i \in DOMAIN done :
          /\ done[i].step = StepOrder[i]
          /\ i < Len(done) => done[i].ok
    /\ \A i, j \in DOMAIN trace :
          (i < j /\ trace[i].op \in DOMAIN StepOf /\ trace[j].op \in DOMAIN StepOf)
              => StepOf[trace[i].op] <= StepOf[trace[j].op]
    /\ \A i \in DOMAIN trace :
          trace[i].op \in DOMAIN StepOf => Len(done) >= StepOf[trace[i].op]
    /\ Attempts("create_dir") # {} => cmd.sys_dir # 0
    /\ (Ran("create_dir") /\ cmd.sys_dir # 0) => Attempts("create_dir") # {}
    /\ SnapshotTaken =>
          /\ Len(done) = Len(StepOrder)
          /\ \A i \in DOMAIN done : done[i].ok

\* a constructed context, its system directory created and its filters
\* built after the device cache was set up
C14_Witness ==
    /\ SnapshotTaken
    /\ pc = "return"
    /\ Calls("create_dir") # {}
    /\ Calls("dev_cache_add_dir") # {}
    /\ Calls("persistent_filter_load") # {}


(* C15 *)

\* C15: _init_logging never fails and is followed by _process_config,
\* whether or not log/file could be opened; after a failed fopen no log
\* stream is installed and teardown closes none.
C15_LoggingNeverAborts ==
    /\ \A i \in DOMAIN done :
          done[i].step = "_init_logging" =>
              /\ done[i].ok
              /\ Len(done) = i => pc = "_process_config"
              /\ Len(done) > i => done[i + 1].step = "_process_config"
    /\ Calls("fopen") = {} =>
          /\ ~log_fp
          /\ Attempts("fclose") = {}

\* a context torn down whose log file could not be opened
C15_Witness ==
    /\ pc = "destroyed"
    /\ Attempts("fopen") # {}
    /\ Calls("fopen") = {}


(* C16 *)

\* the calls that build a filter layer, successful or not
LayerAttempts == UNION {Attempts(op) : op \in FilterCreates}

\* C16: the type filter is the first layer built; without devices/filter no
\* regex or composite layer is built and the persistent filter wraps the
\* type filter; with devices/filter it wraps a composite of the regex
\* filter and the type filter, in that order; a layer that cannot be built
\* fails the filter step.
C16_FilterPipelineShape ==
    /\ \A i \in LayerAttempts :
          (\A j \in LayerAttempts : i <= j) => trace[i].op = "lvm_type_filter_create"
    /\ (Ran("_init_filters") /\ Calls("lvm_type_filter_create") # {}) =>
          /\ "devices/filter" \in DOMAIN conf
          /\ ~conf["devices/filter"] =>
                /\ Attempts("regex_filter_create") = {}
                /\ Attempts("composite_filter_create") = {}
                /\ Attempts("persistent_filter_create") # {}
                /\ Calls("persistent_filter_create") # {} =>
                      (pfilter.inner = "type" /\ pfilter.children = << >>)
          /\ conf["devices/filter"] =>
                /\ Attempts("regex_filter_create") # {}
                /\ Calls("persistent_filter_create") # {} =>
                      /\ pfilter.inner = "composite"
                      /\ pfilter.children = <<"regex", "type">>
                      /\ Calls("regex_filter_create") # {}
                      /\ Calls("composite_filter_create") # {}
    /\ (\E i \in LayerAttempts : ~trace[i].ok) =>
          /\ Failed("_init_filters")
          /\ cmd.filter = "NULL"
          /\ \A i \in LayerAttempts : ~trace[i].ok => \A j \in LayerAttempts : j <= i
    /\ Succeeded("_init_filters") =>
          /\ cmd.filter = "f4"
          /\ Calls("persistent_filter_create") # {}

\* a filter step that built the composite under the persistent filter
C16_Witness ==
    /\ Succeeded("_init_filters")
    /\ conf["devices/filter"]
    /\ pfilter.children = <<"regex", "type">>


(* C17 *)

\* the position in the trace of the destroy of the k-th handler
DestroyAt(k) == CHOOSE j \in Attempts("fmt_destroy") : trace[j].arg = k

\* C17: teardown destroys the handlers of the format list in list order,
\* each once; a handler that owns a module has the module closed right
\* after its destroy, once; no module is closed for a handler that owns
\* none (lvm1, text).
C17_DestroyThenClose ==
    pc = "destroyed" =>
        LET off == IF build.LVM1_INTERNAL THEN 1 ELSE 0
            n == off + Len(ListedLibs) + 1
        IN /\ \A k \in 1..n :
                 Cardinality({j \in Attempts("fmt_destroy") : trace[j].arg = k}) = 1
           /\ Cardinality(Attempts("fmt_destroy")) = n
           /\ \A k \in 1..n - 1 : DestroyAt(k) < DestroyAt(k + 1)
           /\ \A i \in 1..Len(ListedLibs) :
                 /\ Cardinality({j \in Attempts("dlclose") : trace[j].arg = i}) = 1
                 /\ trace[DestroyAt(off + i) + 1] = Ev("dlclose", i, TRUE)
           /\ Cardinality(Attempts("dlclose")) = Len(ListedLibs)
           /\ \A k \in (1..n) \ {off + i : i \in 1..Len(ListedLibs)} :
                 trace[DestroyAt(k) + 1].op # "dlclose"

\* a torn down context that had the lvm1 format, two plugins and the text
\* format
C17_Witness ==
    /\ pc = "destroyed"
    /\ build.LVM1_INTERNAL
    /\ Len(ListedLibs) = 2
    /\ Cardinality(Attempts("dlclose")) = 2

(* C18 *)

\* the modules load_shared_library returned, by their place in
\* global/format_libraries
Loaded == {trace[j].arg : j \in Calls("load_shared_library")}

\* C18: once create_toolcontext has failed, or the context was torn down,
\* every module that was loaded has been closed, once.
C18_LoadedModulesClosed ==
    (ReturnedNull \/ pc = "destroyed") =>
        \A i \in Loaded :
            Cardinality({j \in Calls("dlclose") : trace[j].arg = i}) = 1


(* C19 *)

\* the dev_cache_add_dir calls, in the order made
AddDirs == Attempts("dev_cache_add_dir")
AddDir(k) == trace[CHOOSE j \in AddDirs : Cardinality({h \in AddDirs : h <= j}) = k]

C20_ReturnedContextFormed ==
    (ret = "cmd" /\ pc = "return") =>
        /\ cmd.current_settings = cmd.default_settings
        /\ \A f \in DOMAIN ZeroSettings :
              cmd.current_settings[f] = cmd.default_settings[f]
        /\ cmd.current_settings.fmt \in 1..Len(cmd.formats)
        /\ format_matches(cmd.formats[cmd.current_settings.fmt], conf["global/format"])
        /\ cmd.fmt_backup \in 1..Len(cmd.formats)
        /\ cmd.filter = "f4"
        /\ pfilter.state \in {"cold", "loaded"}
        /\ pfilter.inner \in {"type", "composite"}
        /\ Calls("persistent_filter_create") # {}
        /\ Attempts("filter_destroy") = {}
        /\ cmd.mem
        /\ Calls("pool_create") # {}
        /\ Attempts("pool_destroy") = {}

\* a returned context whose default format is not the first of its list
C20_Witness ==
    /\ ret = "cmd" /\ pc = "return"
    /\ cmd.current_settings.fmt > 1
    /\ cmd.current_settings.unit_factor # 0

====
